---- MODULE Spec2Model ----
(***************************************************************************)
(* OmniView: camera manager, monitor thread, capture worker threads and    *)
(* the frame queue, modelled as a state machine.                            *)
(*   src/src/omniview/threads.py   BaseCameraThread (capture worker)        *)
(*   src/src/omniview/manager.py   CameraThread, CameraManager              *)
(*   src/src/omniview/managers.py  BaseCameraManager, IPCameraManager       *)
(* Time is a discrete clock `now` (one unit = one second of time.time()).   *)
(* Threads interleave at the granularity of the actions below; a sleep or a *)
(* blocking call is a control point a thread may stay at for any time.      *)
(***************************************************************************)
EXTENDS Integers, Sequences, FiniteSets, TLC

\* ---------------------------------------------------------------- bounds
\* max_cameras (constructor argument): the probed index range and half the queue size
MaxCameras == 1
\* len(ip_cameras) / len(rtsp_urls): the fixed list of network sources
NumIP == 2
\* worker threads ever started in one run
MaxWorkers == 2
\* frames the devices deliver in one run
MaxFrames == 3
\* device failures (failed open, failed read, exception) in one run
MaxFaults == 3
\* steps of the clock in one run
MaxTicks == 1
MaxStops == 2
\* max_cameras in the runs of discovery and of the sequential mode on their own
NumCandidates == 3
\* cameras of the sequential mode that are told apart by their count
MaxTurns == 4

\* ------------------------------------------------------ program constants
MaxRetries == 3
MinUptime == 5
Freshness == 5
QueueSize == MaxCameras * 2
\* The clock advances by TickStep: every comparison the program makes with the
\* clock has the threshold 5 (min_uptime, the 5.0 of _add_cached_frames), so an
\* elapsed time is either 0 (below it) or at least TickStep (beyond it)
TickStep == Freshness + 1

Workers == 1..MaxWorkers
UsbDevs == 0..(MaxCameras - 1)
IpDevs == 0..(NumIP - 1)
AllDevs == UsbDevs \cup IpDevs
NoFrame == [dev |-> -1, id |-> 0, ok |-> FALSE, ts |-> 0]
NoCam == [thread |-> 0, last_frame |-> NoFrame, last_update |-> 0]
NoFrames == [d \in AllDevs |-> NoFrame]
Candidates == 0..(NumCandidates - 1)
NoCap == -1

VARIABLES
    now,            \* time.time()
    use_ip_cameras, \* fixed-list device class (TRUE) or probed device class (FALSE)
    manager_class,  \* "CameraManager" (manager.py) or "IPCameraManager" (managers.py)
    show_gui,       \* constructor argument
    stop_event,     \* the manager's stop_event is set
    lock,           \* holder of self.lock: "free", "monitor" or "main"
    cameras,        \* self.cameras: device -> record, NoCam when absent
    active_windows, \* self.active_windows: set of window titles
    frame_queue,    \* queue.Queue(maxsize = max_cameras * 2)
    nframes,        \* frames read so far (gives every frame its identity)
    nfaults,        \* device failures so far
    unreleased,     \* a capture handle that _open_camera opened and dropped, its
                    \* configuration having raised, is still open
    env,            \* what the environment does in this run: at most env.faults
                    \* device failures, env.frames frames (of the shapes
                    \* env.shapes) and env.ticks steps of the clock
    wpc,            \* worker -> control point of run(); "new" = no such thread
    wdev,           \* worker -> camera_id
    retry_count,    \* worker -> self.retry_count
    cap,            \* worker -> TRUE iff self.cap is an opened capture handle
    start_time,     \* worker -> start_time of the running _process_camera_stream
    thread_stop,    \* worker -> its stop_event is set
    held,           \* worker -> the frame read and not yet put on the queue
    mpc,            \* control point of the monitor thread
    current_devices,\* monitor: result of _get_available_devices()
    rm_todo,        \* monitor: keys of list(self.cameras.keys()) still to examine
    cpc,            \* control point of the main (consumer) thread
    frames,         \* main: the frames dict of the running process_frames
    main_error,     \* main: the exception caught by _main_loop, "none" if none
    stop_todo,      \* main: keys of stop()'s list(self.cameras.keys()) still to remove
    stop_cur,       \* main: the device stop()'s _remove_camera is removing, -1 if none
    stop_calls,     \* main: calls of stop() so far
    cb_last,        \* device -> id of the last frame passed to frame_callback
    platform,       \* sys.platform: "linux" or "other"
    candidates,     \* index -> what probing the index meets, in this run
    probe_i,        \* _get_available_devices: i of its for loop
    devices,        \* _get_available_devices: its list `devices`
    cameras_list,   \* sequential mode: self.cameras_list
    current_cam_idx,\* sequential mode: self.current_cam_idx
    seq_cap,        \* sequential mode: camera of self.cap, NoCap when None
    handles,        \* sequential mode: capture handles open
    turns           \* sequential mode: cameras processed so far, up to MaxTurns

dvars == <<platform, candidates, probe_i, devices>>
svars == <<cameras_list, current_cam_idx, seq_cap, handles, turns>>
cfgvars == <<use_ip_cameras, manager_class, show_gui, env, dvars, svars>>
wvars == <<wpc, wdev, retry_count, cap, start_time, thread_stop, held>>
mvars == <<mpc, current_devices, rm_todo>>
cvars == <<cpc, frames, main_error, stop_todo, stop_cur, stop_calls, cb_last>>
vars == <<now, use_ip_cameras, manager_class, show_gui, stop_event, lock, cameras,
          active_windows, frame_queue, nframes, nfaults, unreleased, env, wpc, wdev,
          retry_count, cap,
          start_time, thread_stop, held, mpc, current_devices, rm_todo, cpc,
          frames, main_error, stop_todo, stop_cur, stop_calls, cb_last, platform,
          candidates, probe_i, devices, cameras_list, current_cam_idx, seq_cap,
          handles, turns>>

Keys == {d \in AllDevs : cameras[d] # NoCam}
IsAlive(w) == wpc[w] \notin {"new", "done"}
Min(S) == CHOOSE x \in S : \A y \in S : x <= y

\* ------------------------------------------------------------ the worker
\* What a worker step leaves alone
WorkerFrame == UNCHANGED <<now, cfgvars, stop_event, lock, cameras, active_windows,
                           mvars, cvars>>

\* every finished thread object taken for garbage at once
Referenced_Never(w) ==
    FALSE

\* The thread object of a finished worker that no record refers to is garbage
Referenced(w) == \E d \in AllDevs : cameras[d].thread = w

\* run()'s finally leaving self.cap as it is
ReleaseCameraResources_KeepsHandle(w) ==
    UNCHANGED <<cap, start_time>>

\* run(): finally: self._release_camera_resources() (start_time, a local of
\* _process_camera_stream, is gone by then)
ReleaseCameraResources(w) ==
    /\ cap' = [cap EXCEPT ![w] = FALSE]
    /\ start_time' = [start_time EXCEPT ![w] = 0]

\* The device fails once more (a failed open, a failed read, an exception)
DeviceFails ==
    /\ nfaults < env.faults
    /\ nfaults' = nfaults + 1

\* _handle_camera_error counting a failure twice
HandleCameraError_CountsTwice(w) ==
    /\ retry_count' = [retry_count EXCEPT ![w] = @ + 2]
    /\ wpc' = [wpc EXCEPT ![w] = "backoff"]
    /\ UNCHANGED <<cap, start_time>>

\* _handle_camera_error: count the failure; below max_retries time.sleep(2.0)
\* comes before run()'s finally, else the finally (release) follows at once
HandleCameraError(w) ==
    /\ retry_count' = [retry_count EXCEPT ![w] = @ + 1]
    /\ IF retry_count[w] + 1 < MaxRetries
       THEN /\ wpc' = [wpc EXCEPT ![w] = "backoff"]
            /\ UNCHANGED <<cap, start_time>>
       ELSE /\ wpc' = [wpc EXCEPT ![w] = "loop"]
            /\ ReleaseCameraResources(w)

\* run()'s while condition giving up at the first counted failure
RunCondition_StopsAtFirstFailure(w) ==
    ~thread_stop[w] /\ retry_count[w] < 1

\* run()'s while condition with the test of retry_count off by one
RunCondition_OneMoreRetry(w) ==
    ~thread_stop[w] /\ retry_count[w] <= MaxRetries

\* run()'s while condition without the test of retry_count
RunCondition_NoRetryLimit(w) ==
    ~thread_stop[w]

\* run(): not self.stop_event.is_set() and self.retry_count < self.max_retries
RunCondition(w) ==
    ~thread_stop[w] /\ retry_count[w] < MaxRetries

\* run(): the while condition; the thread ends when it is false
RunLoop(w) ==
    /\ wpc[w] = "loop"
    /\ IF RunCondition(w)
       THEN /\ wpc' = [wpc EXCEPT ![w] = "open"]
            /\ UNCHANGED <<wdev, retry_count, thread_stop>>
       ELSE IF Referenced(w)
       THEN /\ wpc' = [wpc EXCEPT ![w] = "done"]
            /\ UNCHANGED <<wdev, retry_count, thread_stop>>
       ELSE /\ wpc' = [wpc EXCEPT ![w] = "new"]
            /\ wdev' = [wdev EXCEPT ![w] = 0]
            /\ retry_count' = [retry_count EXCEPT ![w] = 0]
            /\ thread_stop' = [thread_stop EXCEPT ![w] = FALSE]
    /\ UNCHANGED <<cap, start_time, held, frame_queue, nframes>>
    /\ UNCHANGED <<nfaults, unreleased>>
    /\ WorkerFrame

\* _open_camera: `except Exception: continue` after the configuration of an
\* opened handle raised. Nothing calls cap.release(): the handle is closed if
\* and when the interpreter finalizes the unreferenced VideoCapture object.
DropHandle(finalized) ==
    unreleased' = (unreleased \/ ~finalized)

\* run(): self.cap = self._open_camera(); on success _process_camera_stream
\* starts (retry_count = 0, start_time = time.time()); on failure (no backend
\* opened the device, or the configuration of the opened handle raised, and
\* _open_camera returned None) RuntimeError
OpenCamera(w) ==
    /\ wpc[w] = "open"
    /\ \/ /\ cap' = [cap EXCEPT ![w] = TRUE]
          /\ retry_count' = [retry_count EXCEPT ![w] = 0]
          /\ start_time' = [start_time EXCEPT ![w] = now]
          /\ wpc' = [wpc EXCEPT ![w] = "stream"]
          /\ UNCHANGED <<nfaults, unreleased>>
       \/ /\ DeviceFails
          /\ \/ UNCHANGED unreleased
             \/ \E finalized \in BOOLEAN : DropHandle(finalized)
          /\ HandleCameraError(w)
    /\ UNCHANGED <<wdev, thread_stop, held, frame_queue, nframes>>
    /\ WorkerFrame

\* _process_camera_stream: the read loop's condition and self.cap.read(): a frame
\* (ret true), a failed read (ret false), or an exception
ReadFrame(w) ==
    /\ wpc[w] = "stream"
    /\ IF thread_stop[w]
       THEN /\ wpc' = [wpc EXCEPT ![w] = "loop"]
            /\ ReleaseCameraResources(w)
            /\ UNCHANGED <<retry_count, held, nframes, nfaults, unreleased>>
       ELSE \/ /\ nframes < env.frames
               /\ \E valid \in env.shapes :
                    held' = [held EXCEPT ![w] =
                       [dev |-> wdev[w], id |-> nframes + 1, ok |-> valid, ts |-> now]]
               /\ nframes' = nframes + 1
               /\ wpc' = [wpc EXCEPT ![w] = "put"]
               /\ UNCHANGED <<retry_count, nfaults, unreleased, cap, start_time>>
            \/ /\ DeviceFails
               /\ wpc' = [wpc EXCEPT ![w] = "read_failed"]
               /\ UNCHANGED <<retry_count, held, nframes, cap, start_time, unreleased>>
            \/ /\ DeviceFails
               /\ HandleCameraError(w)
               /\ UNCHANGED <<held, nframes, unreleased>>
    /\ UNCHANGED <<wdev, thread_stop, frame_queue>>
    /\ WorkerFrame

\* the test of min_uptime with every failed read taken for final
Transient_Never(w) ==
    FALSE

\* the test of min_uptime with every failed read taken for transient
Transient_Always(w) ==
    TRUE

\* _process_camera_stream: time.time() - start_time < self.min_uptime
Transient(w) ==
    now - start_time[w] < MinUptime

\* _process_camera_stream, if not ret: below min_uptime time.sleep(0.1) and
\* continue; else break, _process_camera_stream returns and run()'s finally follows
ReadFailed(w) ==
    /\ wpc[w] = "read_failed"
    /\ IF Transient(w)
       THEN /\ wpc' = [wpc EXCEPT ![w] = "stream"]
            /\ UNCHANGED <<cap, start_time>>
       ELSE /\ wpc' = [wpc EXCEPT ![w] = "loop"]
            /\ ReleaseCameraResources(w)
    /\ UNCHANGED <<wdev, retry_count, thread_stop, held, frame_queue, nframes>>
    /\ UNCHANGED <<nfaults, unreleased>>
    /\ WorkerFrame

\* a put that makes room on a full queue by dropping its oldest frame
PutFrame_DropsOldest(w) ==
    /\ wpc[w] = "put"
    /\ frame_queue' = IF Len(frame_queue) < QueueSize
                       THEN Append(frame_queue, held[w])
                       ELSE Append(Tail(frame_queue), held[w])
    /\ held' = [held EXCEPT ![w] = NoFrame]
    /\ wpc' = [wpc EXCEPT ![w] = "stream"]
    /\ UNCHANGED <<wdev, retry_count, cap, start_time, thread_stop, nframes>>
    /\ UNCHANGED <<nfaults, unreleased>>
    /\ WorkerFrame

\* self.frame_queue.put((self.camera_id, frame)): blocks while the queue is full
PutFrame(w) ==
    /\ wpc[w] = "put"
    /\ Len(frame_queue) < QueueSize
    /\ frame_queue' = Append(frame_queue, held[w])
    /\ held' = [held EXCEPT ![w] = NoFrame]
    /\ wpc' = [wpc EXCEPT ![w] = "stream"]
    /\ UNCHANGED <<wdev, retry_count, cap, start_time, thread_stop, nframes>>
    /\ UNCHANGED <<nfaults, unreleased>>
    /\ WorkerFrame

\* _handle_camera_error: time.sleep(2.0) is over; run()'s finally
Backoff(w) ==
    /\ wpc[w] = "backoff"
    /\ wpc' = [wpc EXCEPT ![w] = "loop"]
    /\ ReleaseCameraResources(w)
    /\ UNCHANGED <<wdev, retry_count, thread_stop, held, frame_queue, nframes>>
    /\ UNCHANGED <<nfaults, unreleased>>
    /\ WorkerFrame

\* ------------------------------------------------------------- the clock
Tick ==
    /\ now < env.ticks * TickStep
    /\ now' = now + TickStep
    /\ UNCHANGED <<cfgvars, stop_event, lock, cameras, active_windows, frame_queue,
                   nframes, nfaults, unreleased, wvars, mvars, cvars>>

\* ----------------------------------------------------- the device table
\* _get_window_title: f"Camera {dev_id} ({camera_type}): {source}", where source
\* is the record's source, or str(dev_id) when the record is gone
WindowTitle(d) ==
    [dev |-> d,
     source |-> IF cameras[d] # NoCam /\ use_ip_cameras THEN "url" ELSE "dev_id"]

FreeSlots == {w \in Workers : wpc[w] = "new"}
Rank(d, S) == Cardinality({x \in S : x < d})
Kth(S, k) == CHOOSE x \in S : Cardinality({y \in S : y < x}) = k

\* _get_available_devices: the whole configured list, or the probed indices
\* that answer at this moment
AvailableDevices == IF use_ip_cameras THEN {IpDevs} ELSE SUBSET UsbDevs

\* _should_remove_camera asking for `dev_id not in current_devices` whatever
\* the class (the test of managers.py)
ShouldRemoveCamera_DiscoveryTestForAll(d, current) ==
    d \notin current /\ ~IsAlive(cameras[d].thread)

\* _should_remove_camera without the is_alive() test
ShouldRemoveCamera_NoAliveTest(d, current) ==
    d \notin current

\* _should_remove_camera answering yes for every record
ShouldRemoveCamera_Always(d, current) ==
    TRUE

\* _should_remove_camera without the test of current_devices
ShouldRemoveCamera_NoDiscoveryTest(d, current) ==
    ~IsAlive(cameras[d].thread)

\* _should_remove_camera, given that the record exists
ShouldRemoveCamera(d, current) ==
    IF manager_class = "CameraManager" /\ use_ip_cameras
    THEN ~IsAlive(cameras[d].thread)
    ELSE d \notin current /\ ~IsAlive(cameras[d].thread)

\* _should_remove_camera raising for every device it is asked about
ShouldRemoveRaises_Always(d, current) ==
    TRUE

\* _should_remove_camera reads self.cameras[dev_id]: KeyError when the record
\* is gone (`and` skips the read when dev_id is in current_devices)
ShouldRemoveRaises(d, current) ==
    /\ cameras[d] = NoCam
    /\ \/ manager_class = "CameraManager" /\ use_ip_cameras
       \/ d \notin current

\* _add_camera without thread.start()
AddCameras_NoStart(new) ==
    /\ cameras' = [d \in AllDevs |->
          IF d \in new
          THEN [thread |-> Kth(FreeSlots, Rank(d, new)),
                last_frame |-> NoFrame, last_update |-> 0]
          ELSE cameras[d]]
    /\ UNCHANGED <<wpc, wdev>>

\* _add_camera for every device of `new`: a record and a started thread each
AddCameras(new) ==
    /\ cameras' = [d \in AllDevs |->
          IF d \in new
          THEN [thread |-> Kth(FreeSlots, Rank(d, new)),
                last_frame |-> NoFrame, last_update |-> 0]
          ELSE cameras[d]]
    /\ wpc' = [w \in Workers |->
          IF \E d \in new : w = Kth(FreeSlots, Rank(d, new)) THEN "loop" ELSE wpc[w]]
    /\ wdev' = [w \in Workers |->
          IF \E d \in new : w = Kth(FreeSlots, Rank(d, new))
          THEN CHOOSE d \in new : w = Kth(FreeSlots, Rank(d, new))
          ELSE wdev[w]]

\* _remove_camera deleting the record only of a worker the join saw end
DeleteRecord_OnlyIfJoined(d, stopped) ==
    IF IsAlive(cameras[d].thread)
    THEN /\ thread_stop' = stopped
         /\ UNCHANGED <<cameras, active_windows, wpc, wdev, retry_count>>
    ELSE /\ cameras' = [cameras EXCEPT ![d] = NoCam]
         /\ active_windows' = active_windows \ {WindowTitle(d)}
         /\ wpc' = [wpc EXCEPT ![cameras[d].thread] = "new"]
         /\ wdev' = [wdev EXCEPT ![cameras[d].thread] = 0]
         /\ retry_count' = [retry_count EXCEPT ![cameras[d].thread] = 0]
         /\ thread_stop' = [stopped EXCEPT ![cameras[d].thread] = FALSE]

\* _remove_camera after the join: destroy the window (cv2.destroyWindow returns,
\* or raises and the window stays in active_windows), then finally: delete the
\* record (the thread object of a finished worker goes with its record);
\* `stopped` is the stop_event of the workers after the set() that came before
DeleteRecord(d, stopped) ==
    LET w == cameras[d].thread IN
    /\ cameras' = [cameras EXCEPT ![d] = NoCam]
    /\ \E destroyed \in BOOLEAN :
          active_windows' =
             IF show_gui /\ destroyed
             THEN active_windows \ {WindowTitle(d)} ELSE active_windows
    /\ IF wpc[w] = "done"
       THEN /\ wpc' = [wpc EXCEPT ![w] = "new"]
            /\ wdev' = [wdev EXCEPT ![w] = 0]
            /\ retry_count' = [retry_count EXCEPT ![w] = 0]
            /\ thread_stop' = [stopped EXCEPT ![w] = FALSE]
       ELSE /\ thread_stop' = stopped
            /\ UNCHANGED <<wpc, wdev, retry_count>>

\* _remove_camera as the monitor runs it: stop_event.set(), thread.join(timeout=1.0)
\* (over at once for a thread that has ended, after the second otherwise), then
\* the window and the record
RemoveCamera(d) ==
    DeleteRecord(d, [thread_stop EXCEPT ![cameras[d].thread] = TRUE])

\* ---------------------------------------------------- the monitor thread
\* _monitor_cameras: (time.sleep(3) is over,) the while condition and
\* _get_available_devices()
MonitorCheck ==
    /\ mpc = "check"
    /\ IF stop_event
       THEN /\ mpc' = "done"
            /\ UNCHANGED current_devices
       ELSE /\ mpc' = "lock"
            /\ current_devices' \in AvailableDevices
    /\ UNCHANGED <<now, cfgvars, stop_event, lock, cameras, active_windows,
                   frame_queue, nframes, nfaults, unreleased, wvars, rm_todo, cvars>>

\* with self.lock: first loop of _update_camera_connections, then the
\* list(self.cameras.keys()) of the second loop
MonitorAdd ==
    LET new == {d \in current_devices : cameras[d] = NoCam} IN
    /\ mpc = "lock"
    /\ lock = "free"
    /\ Cardinality(new) <= Cardinality(FreeSlots)
    /\ lock' = "monitor"
    /\ AddCameras(new)
    /\ rm_todo' = Keys \cup new
    /\ mpc' = "remove"
    /\ UNCHANGED <<now, cfgvars, stop_event, active_windows, frame_queue, nframes,
                   nfaults, unreleased,
                   retry_count, cap, start_time, thread_stop, held,
                   current_devices, cvars>>

\* second loop of _update_camera_connections, one dev_id per step; the lock
\* is released at the end of the with block (time.sleep(3) follows), or by the
\* KeyError that ends the thread
MonitorRemove ==
    /\ mpc = "remove"
    /\ IF rm_todo = {}
       THEN /\ mpc' = "check"
            /\ lock' = "free"
            /\ UNCHANGED <<cameras, active_windows, wpc, wdev, retry_count,
                           thread_stop, rm_todo>>
       ELSE LET d == Min(rm_todo) IN
            IF ShouldRemoveRaises(d, current_devices)
            THEN /\ mpc' = "crashed"
                 /\ lock' = "free"
                 /\ rm_todo' = {}
                 /\ UNCHANGED <<cameras, active_windows, wpc, wdev, retry_count,
                                thread_stop>>
            ELSE /\ rm_todo' = rm_todo \ {d}
                 /\ UNCHANGED <<mpc, lock>>
                 /\ IF cameras[d] # NoCam /\ ShouldRemoveCamera(d, current_devices)
                    THEN RemoveCamera(d)
                    ELSE UNCHANGED <<cameras, active_windows, wpc, wdev,
                                     retry_count, thread_stop>>
    /\ UNCHANGED <<now, cfgvars, stop_event, frame_queue, nframes, nfaults,
                   unreleased, cap, start_time,
                   held, current_devices, cvars>>

\* ------------------------------------------------- the main thread: drain
\* What a step of the main thread leaves alone, besides what each names
MainFrame == UNCHANGED <<now, cfgvars, mvars, cap, start_time, held, nframes, nfaults,
                         unreleased, stop_calls>>

\* _main_loop: the while condition, read after `stopping` is the value of
\* stop_event (which no thread but this one sets); finally: self.stop()
MainLoop(stopping) == IF stopping THEN "stop" ELSE "drain"

\* start(): the monitor thread is started, then _main_loop runs
Start ==
    /\ cpc = "init"
    /\ cpc' = MainLoop(stop_event)
    /\ mpc' = "check"
    /\ UNCHANGED <<now, cfgvars, stop_event, lock, cameras, active_windows,
                   frame_queue, nframes, nfaults, unreleased, wvars, current_devices,
                   rm_todo, frames, main_error, stop_todo, stop_cur, stop_calls,
                   cb_last>>

\* KeyboardInterrupt inside _main_loop: finally: self.stop()
Interrupt ==
    /\ cpc \in {"drain", "cached", "gui", "error_sleep"}
    /\ cpc' = "stop"
    /\ frames' = NoFrames
    /\ main_error' = "none"
    /\ UNCHANGED <<stop_event, lock, cameras, active_windows, frame_queue, wpc, wdev,
                   retry_count, thread_stop, stop_todo, stop_cur, cb_last>>
    /\ MainFrame

\* process_frames accepting every frame
ValidFrame_Any(f) == TRUE

\* process_frames accepts a frame: frame is not None and len(frame.shape) == 3
ValidFrame(f) == f.ok

\* get_nowait() leaving the frame it hands out in the queue
QueueRest_KeepsAll(q) == q

\* get_nowait() handing out the newest frame
QueueHead_Newest(q) == q[Len(q)]

\* queue.get_nowait(): the oldest frame
QueueHead(q) == Head(q)
QueueRest(q) == Tail(q)

\* process_frames: one turn of the drain loop. A valid frame goes into frames,
\* then _update_camera_state writes the record (KeyError when it is gone) and
\* calls frame_callback, which returns or raises; an exception leaves
\* process_frames and is caught by _main_loop
DrainFrame ==
    /\ cpc = "drain"
    /\ IF frame_queue = <<>>
       THEN /\ cpc' = "cached"
            /\ UNCHANGED <<frame_queue, frames, cameras, cb_last, main_error>>
       ELSE LET f == QueueHead(frame_queue) IN
            /\ frame_queue' = QueueRest(frame_queue)
            /\ IF ~ValidFrame(f)
               THEN UNCHANGED <<cpc, frames, cameras, cb_last, main_error>>
               ELSE IF cameras[f.dev] = NoCam
               THEN /\ cpc' = "error_sleep"
                    /\ main_error' = "KeyError"
                    /\ frames' = NoFrames
                    /\ UNCHANGED <<cameras, cb_last>>
               ELSE /\ cameras' = [cameras EXCEPT ![f.dev].last_frame = f,
                                                  ![f.dev].last_update = now]
                    /\ cb_last' = [cb_last EXCEPT ![f.dev] = f.id]
                    /\ \E raised \in BOOLEAN :
                         IF raised
                         THEN /\ cpc' = "error_sleep"
                              /\ main_error' = "callback"
                              /\ frames' = NoFrames
                         ELSE /\ frames' = [frames EXCEPT ![f.dev] = f]
                              /\ UNCHANGED <<cpc, main_error>>
    /\ UNCHANGED <<stop_event, lock, active_windows, wpc, wdev, retry_count,
                   thread_stop, stop_todo, stop_cur>>
    /\ MainFrame

\* _add_cached_frames without the test of last_update
CacheFresh_NoAgeTest(d) ==
    cameras[d].last_frame # NoFrame

\* _add_cached_frames: the condition under which a record's last frame is served
CacheFresh(d) ==
    /\ cameras[d].last_frame # NoFrame
    /\ now - cameras[d].last_update < Freshness

\* _add_cached_frames (with self.lock), then process_frames returns frames
AddCachedFrames ==
    /\ cpc = "cached"
    /\ lock = "free"
    /\ frames' = [d \in AllDevs |->
          IF cameras[d] # NoCam /\ frames[d] = NoFrame /\ CacheFresh(d)
          THEN cameras[d].last_frame ELSE frames[d]]
    /\ cpc' = "gui"
    /\ UNCHANGED <<stop_event, lock, cameras, active_windows, frame_queue, wpc, wdev,
                   retry_count, thread_stop, main_error, stop_todo, stop_cur, cb_last>>
    /\ MainFrame

\* _process_frame_iteration after process_frames: _update_gui_windows (imshow and
\* add a window per frame, destroy the windows of the devices without a frame),
\* then _check_exit_condition (an exit key sets stop_event)
UpdateGui ==
    /\ cpc = "gui"
    /\ active_windows' =
          IF show_gui
          THEN {t \in active_windows : frames[t.dev] # NoFrame}
                  \cup {WindowTitle(d) : d \in {x \in AllDevs : frames[x] # NoFrame}}
          ELSE active_windows
    /\ \E exit_key \in BOOLEAN :
          stop_event' = (stop_event \/ (show_gui /\ exit_key))
    /\ frames' = NoFrames
    /\ cpc' = MainLoop(stop_event')
    /\ UNCHANGED <<lock, cameras, frame_queue, wpc, wdev, retry_count, thread_stop,
                   main_error, stop_todo, stop_cur, cb_last>>
    /\ MainFrame

\* _main_loop: except Exception: log, time.sleep(1)
ErrorSleep ==
    /\ cpc = "error_sleep"
    /\ cpc' = MainLoop(stop_event)
    /\ main_error' = "none"
    /\ UNCHANGED <<stop_event, lock, cameras, active_windows, frame_queue, wpc, wdev,
                   retry_count, thread_stop, frames, stop_todo, stop_cur, cb_last>>
    /\ MainFrame

\* -------------------------------------------------- the main thread: stop
\* stop(): self.stop_event.set() and list(self.cameras.keys())
StopBegin ==
    /\ cpc = "stop"
    /\ stop_calls' = stop_calls + 1
    /\ stop_event' = TRUE
    /\ stop_todo' = Keys
    /\ cpc' = "stop_remove"
    /\ UNCHANGED <<lock, cameras, active_windows, frame_queue, wpc, wdev, retry_count,
                   thread_stop, frames, main_error, stop_cur, cb_last>>
    /\ UNCHANGED <<now, cfgvars, mvars, cap, start_time, held, nframes, nfaults,
                   unreleased>>

\* stop(): next dev_id of the loop; _remove_camera returns at once when the record
\* is gone, else it sets the worker's stop_event and starts thread.join(timeout=1.0)
StopRemove ==
    /\ cpc = "stop_remove"
    /\ IF stop_todo = {}
       THEN /\ cpc' = "stop_join_monitor"
            /\ UNCHANGED <<stop_todo, stop_cur, thread_stop>>
       ELSE LET d == Min(stop_todo) IN
            IF cameras[d] = NoCam
            THEN /\ stop_todo' = stop_todo \ {d}
                 /\ UNCHANGED <<cpc, stop_cur, thread_stop>>
            ELSE /\ thread_stop' = [thread_stop EXCEPT ![cameras[d].thread] = TRUE]
                 /\ stop_cur' = cameras[d].thread
                 /\ cpc' = "stop_join"
                 /\ UNCHANGED stop_todo
    /\ UNCHANGED <<stop_event, lock, cameras, active_windows, frame_queue, wpc, wdev,
                   retry_count, frames, main_error, cb_last>>
    /\ MainFrame

\* thread.join(timeout=1.0) returns: the worker has ended, or (timedout) the
\* second has passed with the worker still running
JoinReturns(w, timedout) == ~IsAlive(w) \/ timedout

\* _remove_camera after the join: the window and the record go (finally: del)
StopJoin ==
    LET d == Min(stop_todo) IN
    /\ cpc = "stop_join"
    /\ \E timedout \in BOOLEAN : JoinReturns(stop_cur, timedout)
    /\ IF cameras[d] # NoCam
       THEN DeleteRecord(d, thread_stop)
       ELSE UNCHANGED <<cameras, active_windows, wpc, wdev, retry_count, thread_stop>>
    /\ stop_todo' = stop_todo \ {d}
    /\ stop_cur' = 0
    /\ cpc' = "stop_remove"
    /\ UNCHANGED <<stop_event, lock, frame_queue, frames, main_error, cb_last>>
    /\ MainFrame

\* stop(): self.monitor_thread.join(timeout=1.0)
StopJoinMonitor ==
    /\ cpc = "stop_join_monitor"
    /\ \E timedout \in BOOLEAN : mpc \in {"done", "crashed"} \/ timedout
    /\ cpc' = "stop_gui"
    /\ UNCHANGED <<stop_event, lock, cameras, active_windows, frame_queue, wpc, wdev,
                   retry_count, thread_stop, frames, main_error, stop_todo,
                   stop_cur, cb_last>>
    /\ MainFrame

\* _cleanup_gui_resources without self.active_windows.clear()
CleanupGuiResources_NoClear == active_windows

\* _cleanup_gui_resources: nothing without show_gui; else destroy every window
\* and self.active_windows.clear()
CleanupGuiResources == IF show_gui THEN {} ELSE active_windows

\* stop(): self._cleanup_gui_resources(); stop() returns
StopCleanup ==
    /\ cpc = "stop_gui"
    /\ active_windows' = CleanupGuiResources
    /\ cpc' = "stopped"
    /\ UNCHANGED <<stop_event, lock, cameras, frame_queue, wpc, wdev, retry_count,
                   thread_stop, frames, main_error, stop_todo, stop_cur, cb_last>>
    /\ MainFrame

\* The caller of start() calls stop() once more after start(), and with it the
\* stop() of _main_loop's finally, has returned
StopAgain ==
    /\ cpc = "stopped"
    /\ stop_calls < MaxStops
    /\ cpc' = "stop"
    /\ UNCHANGED <<stop_event, lock, cameras, active_windows, frame_queue, wpc, wdev,
                   retry_count, thread_stop, frames, main_error, stop_todo,
                   stop_cur, cb_last>>
    /\ MainFrame

\* ------------------------------------------------------ the specification
\* The state after the manager's constructor
InitProgram ==
    /\ now = 0
    /\ stop_event = FALSE
    /\ lock = "free"
    /\ cameras = [d \in AllDevs |-> NoCam]
    /\ active_windows = {}
    /\ frame_queue = <<>>
    /\ nframes = 0
    /\ nfaults = 0
    /\ unreleased = FALSE
    /\ wpc = [w \in Workers |-> "new"]
    /\ wdev = [w \in Workers |-> 0]
    /\ retry_count = [w \in Workers |-> 0]
    /\ cap = [w \in Workers |-> FALSE]
    /\ start_time = [w \in Workers |-> 0]
    /\ thread_stop = [w \in Workers |-> FALSE]
    /\ held = [w \in Workers |-> NoFrame]
    /\ mpc = "new"
    /\ current_devices = {}
    /\ rm_todo = {}
    /\ cpc = "init"
    /\ frames = NoFrames
    /\ main_error = "none"
    /\ stop_todo = {}
    /\ stop_cur = 0
    /\ stop_calls = 0
    /\ cb_last = [d \in AllDevs |-> 0]
    /\ probe_i = 0
    /\ devices = <<>>
    /\ cameras_list = <<>>
    /\ current_cam_idx = 0
    /\ seq_cap = NoCap
    /\ handles = 0
    /\ turns = 0

\* The managers: CameraManager with use_ip_cameras False or True, IPCameraManager
InitConfig ==
    /\ use_ip_cameras \in BOOLEAN
    /\ manager_class \in {"CameraManager", "IPCameraManager"}
    /\ manager_class = "IPCameraManager" => use_ip_cameras

\* What the environment does in one run: so many device failures, frames (of
\* the shapes given) and steps of the clock
Environment(faults, nframes_, ticks, shapes) ==
    [faults |-> faults, frames |-> nframes_, ticks |-> ticks, shapes |-> shapes]

\* The runs examined. Probed class (one device): failures up to the end of the
\* worker after a frame, a failure among frames, frames alone of either shape.
\* Fixed list (a device more, and no use of the clock): failures alone, a
\* failure and a frame, frames alone; and, for the class that reaps the record
\* of a worker that gave up, failures up to the end of the worker after a frame.
Environments ==
    IF use_ip_cameras
    THEN {Environment(MaxFaults, 0, 0, {TRUE}),
          Environment(1, MaxFrames - 2, 0, {TRUE}),
          Environment(0, MaxFrames - 1, 0, {TRUE})}
         \cup (IF manager_class = "CameraManager"
               THEN {Environment(MaxFaults, MaxFrames - 2, 0, {TRUE})}
               ELSE {})
    ELSE {Environment(MaxFaults, 1, MaxTicks, {TRUE}),
          Environment(1, MaxFrames - 1, MaxTicks, {TRUE}),
          Environment(0, MaxFrames, 0, BOOLEAN)}

\* The runs in which discovery is taken by its result (AvailableDevices)
NoProbing ==
    /\ platform = "linux"
    /\ candidates = [i \in Candidates |-> "absent"]

Init ==
    /\ InitProgram
    /\ InitConfig
    /\ show_gui = TRUE
    /\ env \in Environments
    /\ NoProbing

\* One step of the worker thread w
WorkerStep(w) ==
    \/ RunLoop(w)
    \/ OpenCamera(w)
    \/ ReadFrame(w)
    \/ ReadFailed(w)
    \/ PutFrame(w)
    \/ Backoff(w)

Worker == \E w \in Workers : WorkerStep(w)

Monitor == MonitorCheck \/ MonitorAdd \/ MonitorRemove

Main ==
    \/ Start
    \/ Interrupt
    \/ DrainFrame
    \/ AddCachedFrames
    \/ UpdateGui
    \/ ErrorSleep
    \/ StopBegin
    \/ StopRemove
    \/ StopJoin
    \/ StopJoinMonitor
    \/ StopCleanup

Next == Worker \/ Monitor \/ Main \/ Tick

Spec == Init /\ [][Next]_vars

\* The runs in which the caller of start() calls stop() again when start() has
\* returned, as the examples do in their KeyboardInterrupt handler: the probed
\* class of manager.py
StopTwiceInit ==
    /\ InitProgram
    /\ use_ip_cameras = FALSE
    /\ manager_class = "CameraManager"
    /\ show_gui = TRUE
    /\ env \in Environments
    /\ NoProbing

StopTwiceNext == Next \/ StopAgain

StopTwiceSpec == StopTwiceInit /\ [][StopTwiceNext]_vars

\* The probed class alone, a run of failures or a run of frames (one more than
\* fill the queue after a first one is drained): the runs the progress
\* properties are checked on
FairInit ==
    /\ InitProgram
    /\ use_ip_cameras = FALSE
    /\ manager_class = "CameraManager"
    /\ show_gui = TRUE
    /\ env \in {Environment(MaxFaults, 0, MaxTicks, {TRUE}),
                 Environment(0, MaxFrames + 1, 0, {TRUE})}
    /\ NoProbing

\* Every thread is an operating-system thread: one that can take a step and
\* stays able to is scheduled in the end
Fairness ==
    /\ \A w \in Workers : WF_vars(WorkerStep(w))
    /\ WF_vars(Monitor)
    /\ WF_vars(Main)

FairSpec == FairInit /\ [][Next]_vars /\ Fairness

\* ------------------------------------------ discovery of the probed class
\* What the probe of one index can meet. manager.py on linux: no /dev/video{i}
\* ("absent"); a device whose sysfs name has "camera" in it ("camera") or has
\* not ("other"); a device whose name cannot be read ("unreadable": the inner
\* except); an exception outside the inner try ("raises"). USBCameraManager:
\* cv2.VideoCapture(i, cv2.CAP_V4L2) is opened ("opened") or is not
\* ("unavailable"); OpenCV reports a failed open by isOpened(), it does not raise.
ProbeOutcomes ==
    IF manager_class = "USBCameraManager"
    THEN {"opened", "unavailable"}
    ELSE {"absent", "camera", "other", "unreadable", "raises"}

\* _get_available_devices: devices.append(i) runs for index i. Off linux
\* manager.py appends every index without a probe.
Appends(i) ==
    IF manager_class = "USBCameraManager"
    THEN candidates[i] = "opened"
    ELSE IF platform = "linux"
    THEN candidates[i] \in {"camera", "unreadable"}
    ELSE TRUE

\* the for loop given up at the first candidate whose probe fails
NextCandidate_StopsAtFailure(i) ==
    IF candidates[i] \in {"unreadable", "raises", "unavailable"}
    THEN NumCandidates
    ELSE i + 1

\* for i in range(self.max_cameras): the index after i, whatever i met (every
\* exception of the body is caught inside the body)
NextCandidate(i) == i + 1

\* What a step of discovery leaves alone
DiscoveryFrame ==
    UNCHANGED <<now, use_ip_cameras, manager_class, show_gui, env, platform,
                candidates, svars, stop_event, lock, cameras, active_windows,
                frame_queue, nframes, nfaults, unreleased, wvars, rm_todo, cvars>>

\* _monitor_cameras: while not self.stop_event.is_set():
\* current_devices = self._get_available_devices() begins (devices = [])
DiscoveryBegins ==
    /\ mpc = "check"
    /\ ~stop_event
    /\ mpc' = "probe"
    /\ probe_i' = 0
    /\ devices' = <<>>
    /\ UNCHANGED current_devices
    /\ DiscoveryFrame

\* one turn of the for loop of _get_available_devices
ProbeCandidate ==
    /\ mpc = "probe"
    /\ probe_i < NumCandidates
    /\ devices' = IF Appends(probe_i) THEN Append(devices, probe_i) ELSE devices
    /\ probe_i' = NextCandidate(probe_i)
    /\ UNCHANGED <<mpc, current_devices>>
    /\ DiscoveryFrame

\* return devices: the monitor goes on to `with self.lock`
DiscoveryReturns ==
    /\ mpc = "probe"
    /\ probe_i >= NumCandidates
    /\ current_devices' = {devices[k] : k \in 1..Len(devices)}
    /\ mpc' = "lock"
    /\ UNCHANGED <<probe_i, devices>>
    /\ DiscoveryFrame

\* The runs of discovery: the probed class of manager.py (on linux, every
\* candidate index meeting any of its outcomes, and off linux, where nothing is
\* probed) and of managers.py
DiscoveryInit ==
    /\ InitProgram
    /\ use_ip_cameras = FALSE
    /\ manager_class \in {"CameraManager", "USBCameraManager"}
    /\ show_gui = TRUE
    /\ env = Environment(0, 0, 0, {TRUE})
    /\ platform \in {"linux", "other"}
    /\ manager_class = "USBCameraManager" => platform = "linux"
    /\ candidates \in [Candidates -> ProbeOutcomes]
    /\ platform = "other" => candidates = [i \in Candidates |-> "absent"]

DiscoveryNext == Start \/ DiscoveryBegins \/ ProbeCandidate \/ DiscoveryReturns

DiscoverySpec == DiscoveryInit /\ [][DiscoveryNext]_vars

\* ------------------------------------- USBCameraManager, sequential mode
\* _get_available_devices as a function: the indices below n it appends, in order
RECURSIVE AvailableList(_)
AvailableList(n) ==
    IF n = 0 THEN <<>>
    ELSE IF Appends(n - 1) THEN Append(AvailableList(n - 1), n - 1)
    ELSE AvailableList(n - 1)

\* What a step of the sequential mode leaves alone, besides what each names
SeqFrame ==
    UNCHANGED <<now, use_ip_cameras, manager_class, show_gui, env, dvars, lock,
                cameras, frame_queue, nframes, nfaults, unreleased, wvars, mvars,
                frames, main_error, stop_todo, stop_cur, cb_last>>

\* _process_camera, finally: self.cap.release(); self.cap = None
SeqRelease ==
    /\ seq_cap' = NoCap
    /\ handles' = handles - 1

\* start() with sequential_mode: _sequential_main_loop takes
\* self.cameras_list = self._get_available_devices() and returns if it is empty
SeqStart ==
    /\ cpc = "init"
    /\ cameras_list' = AvailableList(NumCandidates)
    /\ cpc' = IF cameras_list' = <<>> THEN "returned" ELSE "seq_loop"
    /\ UNCHANGED <<stop_event, active_windows, stop_calls, current_cam_idx, seq_cap,
                   handles, turns>>
    /\ SeqFrame

\* while not self.stop_event.is_set(): camera_id = self.cameras_list[
\* self.current_cam_idx]; _process_camera: self.cap = self._open_camera(camera_id),
\* return False if it is None; when the loop is over, finally: _cleanup_sequential
SeqOpen ==
    /\ cpc = "seq_loop"
    /\ IF stop_event
       THEN /\ cpc' = "seq_cleanup"
            /\ UNCHANGED <<seq_cap, handles>>
       ELSE \E opened \in BOOLEAN :
              IF opened
              THEN /\ seq_cap' = cameras_list[current_cam_idx + 1]
                   /\ handles' = handles + 1
                   /\ cpc' = "seq_configure"
              ELSE /\ seq_cap' = NoCap
                   /\ UNCHANGED handles
                   /\ cpc' = "seq_failed"
    /\ UNCHANGED <<stop_event, active_windows, stop_calls, cameras_list,
                   current_cam_idx, turns>>
    /\ SeqFrame

\* _process_camera, try: self._configure_camera(), which returns or raises
\* (except: return False; finally: release)
SeqConfigure ==
    /\ cpc = "seq_configure"
    /\ \E raised \in BOOLEAN :
          IF raised
          THEN /\ SeqRelease
               /\ cpc' = "seq_failed"
          ELSE /\ UNCHANGED <<seq_cap, handles>>
               /\ cpc' = "seq_show"
    /\ UNCHANGED <<stop_event, active_windows, stop_calls, cameras_list,
                   current_cam_idx, turns>>
    /\ SeqFrame

\* _process_camera: one turn of `while not self.stop_event.is_set()`:
\* _handle_frame (a frame read, shown and passed to the callback; an exit key
\* sets stop_event; an exception leaves by except: return False), then
\* _check_switch_time (break, return True); finally: release
SeqHandleFrame ==
    /\ cpc = "seq_show"
    /\ IF stop_event
       THEN /\ SeqRelease
            /\ cpc' = "seq_advance"
            /\ UNCHANGED stop_event
       ELSE \E outcome \in {"frame", "exit_key", "raises", "switch"} :
              /\ stop_event' = (outcome = "exit_key")
              /\ IF outcome \in {"raises", "switch"}
                 THEN /\ SeqRelease
                      /\ cpc' = IF outcome = "switch" THEN "seq_advance"
                                 ELSE "seq_failed"
                 ELSE UNCHANGED <<seq_cap, handles, cpc>>
    /\ UNCHANGED <<active_windows, stop_calls, cameras_list, current_cam_idx, turns>>
    /\ SeqFrame

\* the index left where it is after a camera that could not be processed
NextIndex_OnlyAfterSuccess(success) ==
    IF success THEN (current_cam_idx + 1) % Len(cameras_list) ELSE current_cam_idx

\* self.current_cam_idx = (self.current_cam_idx + 1) % len(self.cameras_list),
\* whatever _process_camera returned
NextIndex(success) ==
    (current_cam_idx + 1) % Len(cameras_list)

\* _sequential_main_loop after _process_camera has returned success (True at
\* "seq_advance", False, which is logged, at "seq_failed")
SeqAdvance ==
    /\ cpc \in {"seq_advance", "seq_failed"}
    /\ current_cam_idx' = NextIndex(cpc = "seq_advance")
    /\ turns' = IF turns < MaxTurns THEN turns + 1 ELSE turns
    /\ cpc' = "seq_loop"
    /\ UNCHANGED <<stop_event, active_windows, stop_calls, cameras_list, seq_cap,
                   handles>>
    /\ SeqFrame

\* _cleanup_sequential: release self.cap if it is open, cv2.destroyAllWindows(),
\* self.stop() (no record and no monitor thread in this mode: stop_event.set()
\* and _cleanup_gui_resources)
SeqCleanup ==
    /\ cpc = "seq_cleanup"
    /\ IF seq_cap # NoCap THEN SeqRelease ELSE UNCHANGED <<seq_cap, handles>>
    /\ stop_event' = TRUE
    /\ stop_calls' = stop_calls + 1
    /\ active_windows' = CleanupGuiResources
    /\ cpc' = "stopped"
    /\ UNCHANGED <<cameras_list, current_cam_idx, turns>>
    /\ SeqFrame

\* The runs of the sequential mode: USBCameraManager(sequential_mode=True), with
\* or without windows, every candidate index a camera that opens or not
SeqInit ==
    /\ InitProgram
    /\ use_ip_cameras = FALSE
    /\ manager_class = "USBCameraManager"
    /\ show_gui \in BOOLEAN
    /\ env = Environment(0, 0, 0, {TRUE})
    /\ platform = "linux"
    /\ candidates \in [Candidates -> ProbeOutcomes]

SeqNext ==
    \/ SeqStart
    \/ SeqOpen
    \/ SeqConfigure
    \/ SeqHandleFrame
    \/ SeqAdvance
    \/ SeqCleanup

SeqSpec == SeqInit /\ [][SeqNext]_vars

\* ================================================================ claims
\* The live workers of device d: started, run() not yet over
LiveWorkers(d) == {w \in Workers : IsAlive(w) /\ wdev[w] = d}

\* C1 (as the spec states it): at every instant at most one worker that has been
\* started and has not left its run loop exists for any device identifier.
\* Refuted: stop() deletes the record of a worker its join(timeout=1.0) did not
\* see end, and a monitor tick that read stop_event before stop() set it then
\* starts a second worker for the device.
C1_OneLiveWorkerPerDevice ==
    \A d \in AllDevs : Cardinality(LiveWorkers(d)) <= 1

\* The devices with a live worker
LiveDevs == {d \in AllDevs : LiveWorkers(d) # {}}
\* The steps of a monitor tick: its add loop, one turn of its remove loop, its end
TickAdds == mpc = "lock" /\ mpc' = "remove"
TickExamines == mpc = "remove" /\ rm_todo' # rm_todo
TickEnds == mpc = "remove" /\ mpc' = "check"

\* C2 (as the spec states it, the half that fails): at the end of every monitor
\* tick every device with a live worker is in that tick's discovered set.
\* Refuted for the probed class: a device that discovery no longer reports
\* keeps its worker for as long as the worker lives.
C2_LiveWithinDiscovered ==
    [][TickEnds => LiveDevs' \subseteq current_devices']_vars

\* C2 (amended): the add loop of a tick leaves every discovered device with a
\* record, a record it creates having a started worker; the remove loop deletes
\* a record only when its worker is not alive and, but for CameraManager's fixed
\* list, the device is not discovered. So after a tick every discovered device
\* whose worker has not terminated has a live worker, and a live worker of a
\* device no longer discovered stays.
C2_TickKeepsLiveWorkers ==
    [][/\ TickAdds =>
            \A d \in current_devices :
                /\ cameras'[d] # NoCam
                /\ cameras[d] = NoCam => wpc'[cameras'[d].thread] = "loop"
                /\ cameras[d] # NoCam => cameras'[d] = cameras[d]
       /\ TickExamines =>
            \A d \in AllDevs :
                cameras[d] # NoCam /\ cameras'[d] = NoCam =>
                    /\ ~IsAlive(cameras[d].thread)
                    /\ \/ manager_class = "CameraManager" /\ use_ip_cameras
                       \/ d \notin current_devices]_vars

\* C2 witness: a tick is over and a discovered device has its record and its
\* live worker
C2_Witness ==
    /\ mpc = "check"
    /\ \E d \in current_devices :
          cameras[d] # NoCam /\ IsAlive(cameras[d].thread) /\ LiveWorkers(d) # {}

\* process_frames returns: _add_cached_frames is over
ProcessFramesReturns == cpc = "cached" /\ cpc' = "gui"

\* C3 (as the spec states it): no frame of the map process_frames returns, drained
\* or cached, was captured more than the freshness window before the call.
\* Refuted: the code keeps no capture time; a frame that waited in the queue is
\* returned, and then cached, with the time of its drain.
C3_NoOldCapture ==
    [][ProcessFramesReturns =>
          \A d \in AllDevs :
              frames'[d] # NoFrame => now - frames'[d].ts <= Freshness]_vars

\* C3 (amended): a frame process_frames adds from the cache is the record's last
\* frame, and that frame was drained less than the freshness window before
C3_CachedFrameRecentlyDrained ==
    [][ProcessFramesReturns =>
          \A d \in AllDevs :
              frames'[d] # frames[d] =>
                  /\ frames[d] = NoFrame
                  /\ frames'[d] = cameras[d].last_frame
                  /\ now - cameras[d].last_update < Freshness]_vars

\* C3 witness: the only frame ever read is in the returned map and its window
\* exists already (an earlier iteration drained and showed it): it comes from
\* the cache
C3_Witness ==
    /\ cpc = "gui"
    /\ nframes = 1
    /\ \E d \in AllDevs : frames[d] # NoFrame /\ WindowTitle(d) \in active_windows
\* The control points of _process_camera_stream: the worker is streaming
StreamPcs == {"stream", "read_failed", "put"}
\* The worker w takes its step at `if not ret`, after a failed read
HandlesFailedRead(w) == wpc[w] = "read_failed" /\ wpc'[w] # "read_failed"

\* C4: a worker whose failure count has reached max_retries (3) is over or about
\* to be: it is not opening, not streaming, holds no device and no frame, and it
\* reaches the end of run(); while the count is above 0 (failures in a row, no
\* streaming session since) the worker is not streaming and has no frame to push.
C4_ExhaustedWorkerTerminates ==
    /\ [](\A w \in Workers :
            /\ retry_count[w] <= MaxRetries
            /\ retry_count[w] > 0 =>
                  wpc[w] \in {"backoff", "loop", "open", "done"} /\ held[w] = NoFrame
            /\ retry_count[w] = MaxRetries =>
                  wpc[w] \in {"loop", "done"} /\ ~cap[w])
    /\ \A w \in Workers : (retry_count[w] = MaxRetries) ~> ~IsAlive(w)

\* C4 witness: a worker has ended with max_retries failures, no frame was ever
\* read, pushed or passed to the callback
C4_Witness ==
    \E w \in Workers :
        /\ wpc[w] = "done"
        /\ retry_count[w] = MaxRetries
        /\ nframes = 0
        /\ frame_queue = <<>>
        /\ cb_last[wdev[w]] = 0

\* C5: a worker that handles a failed read less than min_uptime after the start
\* of its streaming session goes back to reading with the device open, the
\* failure count and the session's start unchanged; and a worker leaves a
\* streaming session only on a failed read at min_uptime or later, on its stop
\* signal, or on an exception (which counts one failure).
C5_TransientReadFailure ==
    [][\A w \in Workers :
          /\ HandlesFailedRead(w) /\ now - start_time[w] < MinUptime =>
                /\ wpc'[w] = "stream"
                /\ cap'[w]
                /\ retry_count'[w] = retry_count[w]
                /\ start_time'[w] = start_time[w]
          /\ wpc[w] \in StreamPcs /\ wpc'[w] \notin StreamPcs =>
                \/ wpc[w] = "read_failed" /\ now - start_time[w] >= MinUptime
                \/ wpc[w] = "stream" /\ thread_stop[w]
                \/ wpc[w] = "stream" /\ retry_count'[w] = retry_count[w] + 1]_vars

\* C5 witness: a read has just failed less than min_uptime after the session's
\* start, the device is open and the failure count is 0
C5_Witness ==
    \E w \in Workers :
        /\ wpc[w] = "read_failed"
        /\ now - start_time[w] < MinUptime
        /\ cap[w]
        /\ retry_count[w] = 0

\* C6 (as the spec states it): a worker that handles a failed read at min_uptime
\* or later leaves the streaming session, releases the device and adds one to
\* its failure count. Refuted: the break leaves _process_camera_stream without
\* an exception, so _handle_camera_error does not run and the count stays 0.
C6_FinalReadFailureCounts ==
    [][\A w \in Workers :
          HandlesFailedRead(w) /\ now - start_time[w] >= MinUptime =>
              /\ wpc'[w] \notin StreamPcs
              /\ ~cap'[w]
              /\ retry_count'[w] = retry_count[w] + 1]_vars

\* C6 (amended): a worker that handles a failed read at min_uptime or later
\* leaves the streaming session for the top of run()'s loop and releases the
\* device; its failure count stays as it was, 0
C6_FinalReadFailureReleases ==
    [][\A w \in Workers :
          HandlesFailedRead(w) /\ now - start_time[w] >= MinUptime =>
              /\ wpc'[w] = "loop"
              /\ ~cap'[w]
              /\ retry_count'[w] = retry_count[w]
              /\ retry_count'[w] = 0]_vars

\* C6 witness: a read has just failed min_uptime or later after the session's start
C6_Witness ==
    \E w \in Workers :
        /\ wpc[w] = "read_failed"
        /\ now - start_time[w] >= MinUptime
        /\ cap[w]
\* C7 (as the spec states it, for the workers stop() has signalled): a worker
\* that is still running when stop() has returned reaches the end of run().
\* Refuted: a worker blocked in frame_queue.put on a full queue never reads its
\* stop signal, for nothing drains the queue once the main loop is over.
C7_StopTerminatesWorkers ==
    \A w \in Workers :
        (cpc = "stopped" /\ thread_stop[w] /\ IsAlive(w)) ~> ~IsAlive(w)

\* C8: when stop() has returned, active_windows is empty
C8_StopLeavesNoWindow ==
    cpc = "stopped" => active_windows = {}

\* C8 witness: stop() has returned after frames were passed on and shown
C8_Witness ==
    /\ cpc = "stopped"
    /\ active_windows = {}
    /\ \E d \in AllDevs : cb_last[d] > 0

\* The main thread takes a frame off the queue
TakesFrame == frame_queue # <<>> /\ frame_queue' = Tail(frame_queue)

\* C9 (as the spec states it): every frame pushed is passed to the callback, once;
\* so every frame taken off the queue is. Refuted: a frame that is not a
\* 3-dimensional array is dropped, and so is a frame whose record is gone.
C9_EveryDrainedFrameDelivered ==
    [][TakesFrame => cb_last'[Head(frame_queue).dev] = Head(frame_queue).id]_vars

\* C9 (amended): every call of the callback passes the oldest frame of the queue,
\* a valid one, and takes it off the queue: per device the callback sees frames
\* in push order, each at most once
C9_CallbackTakesOldestFrame ==
    [][\A d \in AllDevs :
          cb_last'[d] # cb_last[d] =>
              /\ TakesFrame
              /\ Head(frame_queue).dev = d
              /\ Head(frame_queue).id = cb_last'[d]
              /\ ValidFrame(Head(frame_queue))]_vars

\* C9 witness: every frame read (two at least) has left the queue and the last
\* one read was the last one passed to the callback
C9_Witness ==
    /\ nframes >= 2
    /\ frame_queue = <<>>
    /\ \A w \in Workers : held[w] = NoFrame
    /\ \E d \in AllDevs : cb_last[d] = nframes

\* C10 (as the spec states it): when the callback has raised for a drained frame
\* the main thread is still in that call of process_frames, or past its return
\* with the frame map. Refuted: only queue.Empty is caught in process_frames;
\* the exception ends the call and _main_loop catches it.
C10_CallbackFailureIsolated ==
    main_error = "callback" => cpc \in {"drain", "cached", "gui"}
\* C11 (as the spec states it): draining a valid frame whose device has no record
\* any more does not fail: the main thread stays in the drain loop of
\* process_frames with no exception. Refuted: _update_camera_state indexes
\* self.cameras[dev_id]; the KeyError ends process_frames and the frames drained
\* before it are lost with the map.
C11_DrainToleratesMissingRecord ==
    [][TakesFrame /\ ValidFrame(Head(frame_queue))
          /\ cameras[Head(frame_queue).dev] = NoCam =>
              cpc' = "drain" /\ main_error' = "none"]_vars

\* The worker w pushes the frame it holds onto the queue
Pushes(w) == wpc[w] = "put" /\ wpc'[w] = "stream"

\* C12 (as the spec states it): whenever a worker pushes a frame its device is a
\* key of the device table. Refuted: stop() deletes the record after a join that
\* timed out, and the worker, still alive, pushes the frame it holds.
C12_PushedDeviceHasRecord ==
    [][\A w \in Workers : Pushes(w) => cameras[wdev[w]] # NoCam]_vars

\* The records the step of the monitor's remove loop deletes
TickRemoves == {d \in AllDevs : TickExamines /\ cameras[d] # NoCam /\ cameras'[d] = NoCam}

\* C13: for the probed class a monitor tick deletes a record only of a device
\* absent from the tick's discovery whose worker has ended; every record with a
\* live worker that the tick examines is still there after the step, discovered
\* or not.
C13_ProbedRemovalNeedsAbsentAndTerminated ==
    [][~use_ip_cameras =>
          /\ \A d \in TickRemoves :
                d \notin current_devices /\ wpc[cameras[d].thread] = "done"
          /\ \A d \in AllDevs :
                TickExamines /\ cameras[d] # NoCam /\ IsAlive(cameras[d].thread) =>
                    cameras'[d] = cameras[d]]_vars

\* C13 witness: a tick of the probed class is over, its discovery did not report
\* a device whose record is there with its worker streaming
C13_Witness ==
    /\ ~use_ip_cameras
    /\ mpc = "check"
    /\ \E d \in AllDevs :
          /\ d \notin current_devices
          /\ cameras[d] # NoCam
          /\ wpc[cameras[d].thread] \in StreamPcs

\* C14 (as the spec states it): in IPCameraManager a monitor tick deletes the
\* record of every device it examines whose worker has ended. Refuted:
\* IPCameraManager inherits _should_remove_camera, which asks for the device to
\* be absent from current_devices, and current_devices is always the whole list.
C14_FixedListReapsTerminated ==
    [][manager_class = "IPCameraManager" =>
          \A d \in AllDevs :
              /\ TickExamines
              /\ d \in rm_todo \ rm_todo'
              /\ cameras[d] # NoCam
              /\ ~IsAlive(cameras[d].thread)
              => cameras'[d] = NoCam]_vars
\* The thread w exists before and after the step: one lifetime
SameLifetime(w) == wpc[w] # "new" /\ wpc'[w] # "new"

\* C15 (as the spec states it): within one worker's lifetime retry_count never
\* decreases from one step to the next. Refuted: _process_camera_stream begins
\* with self.retry_count = 0, so an open that succeeds after a failure takes the
\* count back to 0.
C15_RetryCountNeverDecreases ==
    [][\A w \in Workers : SameLifetime(w) => retry_count'[w] >= retry_count[w]]_vars

\* C15 (amended): within one worker's lifetime a step changes retry_count only by
\* adding one (a failed open, or an exception while streaming) or by setting it
\* to 0 as an open succeeds and the streaming session starts.
C15_RetryCountStepsOrResets ==
    [][\A w \in Workers :
          SameLifetime(w) /\ retry_count'[w] # retry_count[w] =>
              \/ /\ retry_count'[w] = retry_count[w] + 1
                 /\ wpc[w] \in {"open", "stream"}
                 /\ nfaults' = nfaults + 1
              \/ /\ retry_count'[w] = 0
                 /\ wpc[w] = "open"
                 /\ wpc'[w] = "stream"
                 /\ cap'[w]]_vars

\* C15 witness: a worker that has counted two failures, one by one, is at the
\* open once more, unsignalled: the open that succeeds takes the count to 0
C15_Witness ==
    \E w \in Workers :
        /\ wpc[w] = "open"
        /\ retry_count[w] = MaxRetries - 1
        /\ nfaults = MaxRetries - 1
        /\ ~thread_stop[w]

\* C16: retry_count never exceeds max_retries (3); a worker whose count is 3 is at
\* the test of run()'s loop or over, and its step from that test ends the thread:
\* it does not go on to open.
C16_RetryLimitEndsWorker ==
    /\ [](\A w \in Workers :
            /\ retry_count[w] <= MaxRetries
            /\ retry_count[w] = MaxRetries => wpc[w] \in {"loop", "done"})
    /\ [][\A w \in Workers :
            retry_count[w] = MaxRetries /\ wpc'[w] # wpc[w] =>
                wpc[w] \in {"loop", "done"} /\ wpc'[w] \in {"done", "new"}]_vars

\* C16 witness: a worker has counted its third failure and stands at the test of
\* run()'s loop
C16_Witness ==
    \E w \in Workers :
        /\ retry_count[w] = MaxRetries
        /\ wpc[w] = "loop"
        /\ ~thread_stop[w]

\* C17 (as the spec states it): retry_count goes back to 0 only by a streaming
\* session that has lasted min_uptime. Refuted: the reset is the first statement
\* of _process_camera_stream, so every successful open clears the count,
\* whatever becomes of the session: short failed sessions never add up.
C17_ResetOnlyAfterSustainedStream ==
    [][\A w \in Workers :
          SameLifetime(w) /\ retry_count[w] > 0 /\ retry_count'[w] = 0 =>
              wpc[w] \in StreamPcs /\ now - start_time[w] >= MinUptime]_vars

\* C18 (as the spec states it): a worker whose stop signal is set reaches the end
\* of run(). Refuted: a worker blocked in frame_queue.put on a full queue does
\* not read the signal, and nothing drains the queue once the main loop is over.
C18_SignalledWorkerExits ==
    \A w \in Workers : (thread_stop[w] /\ IsAlive(w)) ~> ~IsAlive(w)

\* The worker w reads its stop signal set: at the test of run()'s loop or at
\* the test of the read loop
ObservesStop(w) ==
    thread_stop[w] /\ wpc[w] \in {"loop", "stream"} /\ wpc'[w] # wpc[w]

\* C19: the step in which a worker reads its stop signal set leaves its device
\* released and does not raise retry_count, and the worker is then at the test of
\* run()'s loop or over; a worker that is over holds no device.
C19_CancelledWorkerReleases ==
    /\ [](\A w \in Workers : ~IsAlive(w) => ~cap[w])
    /\ [][\A w \in Workers :
            ObservesStop(w) =>
                /\ ~cap'[w]
                /\ retry_count'[w] <= retry_count[w]
                /\ wpc'[w] \in {"loop", "done", "new"}
                /\ nfaults' = nfaults]_vars

\* C19 witness: a worker that streamed and was signalled is over, below the
\* retry limit, its device released
C19_Witness ==
    \E w \in Workers :
        /\ wpc[w] = "done"
        /\ thread_stop[w]
        /\ retry_count[w] = 0
        /\ nframes > 0
        /\ ~cap[w]

\* A step of the main thread
MainSteps == cpc' # cpc

\* C20 (as the spec states it): the device table and the window set are read and
\* written under the lock only, so the main thread does not change them while
\* the monitor holds the lock. Refuted: _update_camera_state, _update_gui_windows,
\* stop() and _cleanup_gui_resources take no lock.
C20_TableAccessUnderLock ==
    [][MainSteps /\ (cameras' # cameras \/ active_windows' # active_windows) =>
          lock # "monitor"]_vars
\* C21 (as the spec states it): the lock is not held across a worker join or a
\* display call, so the monitor, which holds it for the whole of
\* _update_camera_connections, runs no _remove_camera there. Refuted: the remove
\* loop calls _remove_camera (thread.join(timeout=1.0), cv2.destroyWindow,
\* cv2.waitKey) inside `with self.lock`.
C21_NoJoinOrDisplayUnderLock ==
    [][lock = "monitor" => TickRemoves = {}]_vars

\* The monitor examines device d in this step of its remove loop
Examines(d) == TickExamines /\ d \in rm_todo /\ d \notin rm_todo'

\* C22 (as the spec states it): a monitor tick deletes every record it examines
\* whose worker has ended, whatever the device class. Refuted: IPCameraManager
\* never deletes such a record, and for the probed class the record stays for as
\* long as the device is discovered.
C22_TerminatedWorkerReaped ==
    [][\A d \in AllDevs :
          Examines(d) /\ cameras[d] # NoCam /\ wpc[cameras[d].thread] = "done" =>
              cameras'[d] = NoCam]_vars

\* The worker w is started in this step, for device d
Started(w, d) == wpc[w] = "new" /\ wpc'[w] = "loop" /\ wdev'[w] = d

MonitorSteps == mpc' # mpc \/ rm_todo' # rm_todo

\* C24: for the probed class, a step of a monitor tick leaves the record of a
\* discovered device whose worker has ended as it is; and whatever the thread,
\* no worker is started for a device while the record of its ended worker is in
\* the table (before and after the step).
C24_TerminatedDiscoverableNotRestarted ==
    [][~use_ip_cameras =>
          \A d \in AllDevs :
              cameras[d] # NoCam /\ wpc[cameras[d].thread] = "done" =>
                  /\ MonitorSteps /\ mpc # "check" /\ d \in current_devices =>
                        cameras'[d] = cameras[d]
                  /\ cameras'[d] # NoCam =>
                        /\ cameras'[d].thread = cameras[d].thread
                        /\ \A w \in Workers : ~Started(w, d)]_vars

\* C24 witness: a tick of the probed class has examined the record of a
\* discovered device whose worker ended at the retry limit, and the record is there
C24_Witness ==
    /\ ~use_ip_cameras
    /\ mpc = "remove"
    /\ \E d \in current_devices :
          /\ d \notin rm_todo
          /\ cameras[d] # NoCam
          /\ wpc[cameras[d].thread] = "done"
          /\ retry_count[cameras[d].thread] = MaxRetries

\* C25 (as the spec states it): a worker that handles a failed read at min_uptime
\* or later goes to the backoff wait, unless it is to end (signalled, or at the
\* retry limit). Refuted: the break leaves _process_camera_stream normally, the
\* finally releases the device and the worker is at once at the test of run()'s
\* loop, from where it opens again with no wait.
C25_BackoffAfterFinalReadFailure ==
    [][\A w \in Workers :
          HandlesFailedRead(w) /\ now - start_time[w] >= MinUptime =>
              \/ wpc'[w] = "backoff"
              \/ thread_stop[w]
              \/ retry_count'[w] >= MaxRetries]_vars
\* The worker w leaves run() in this step
Exits(w) == IsAlive(w) /\ wpc'[w] \in {"done", "new"}

Cached(d) ==
    IF /\ cameras[d] # NoCam
       /\ cameras[d].last_frame # NoFrame
       /\ now - cameras[d].last_update < Freshness
    THEN cameras[d].last_frame
    ELSE NoFrame

\* C27: a call of process_frames starts with an empty map; each frame it drains
\* that is a 3-dimensional array replaces its device's entry, and no other step
\* of the drain changes the map, so an entry of the map being built is the last
\* valid frame drained for its device (the last passed to the callback); when
\* the call returns, a device without an entry gets its cached frame if it has a
\* record and the frame's last update is less than 5 old, and none otherwise.
C27_FrameMapContents ==
    /\ [](cpc \in {"drain", "cached"} =>
            \A d \in AllDevs :
                frames[d] # NoFrame =>
                    /\ frames[d].dev = d
                    /\ frames[d].ok
                    /\ frames[d].id = cb_last[d])
    /\ [][/\ cpc # "drain" /\ cpc' = "drain" => frames' = NoFrames
          /\ cpc = "drain" /\ cpc' = "drain" /\ TakesFrame =>
                frames' = IF Head(frame_queue).ok
                          THEN [frames EXCEPT ![Head(frame_queue).dev] = Head(frame_queue)]
                          ELSE frames
          /\ cpc = "drain" /\ cpc' = "cached" => frames' = frames
          /\ ProcessFramesReturns =>
                frames' = [d \in AllDevs |->
                              IF frames[d] # NoFrame THEN frames[d] ELSE Cached(d)]]_vars

\* C27 witness: process_frames has returned a map with the frames of two devices
\* and the queue is empty
C27_Witness ==
    /\ cpc = "gui"
    /\ frame_queue = <<>>
    /\ Cardinality({d \in AllDevs : frames[d] # NoFrame}) = 2

\* C28: the queue never holds more than 2 * max_cameras frames; it changes only
\* by a worker's put, which appends to a queue that is not full, or by the main
\* thread's get, which takes the oldest frame; a worker at its put with the
\* queue full stays there, holding its frame.
C28_BoundedQueueBlocksAndKeeps ==
    /\ [](Len(frame_queue) <= QueueSize)
    /\ [][/\ frame_queue' # frame_queue =>
                \/ /\ cpc = "drain"
                   /\ frame_queue # <<>>
                   /\ frame_queue' = Tail(frame_queue)
                \/ \E w \in Workers :
                      /\ Pushes(w)
                      /\ Len(frame_queue) < QueueSize
                      /\ frame_queue' = Append(frame_queue, held[w])
          /\ \A w \in Workers :
                wpc[w] = "put" /\ Len(frame_queue) = QueueSize =>
                    wpc'[w] = "put" /\ held'[w] = held[w]]_vars

\* C28 witness: the queue is full and a worker is at its put with one frame more
C28_Witness ==
    /\ Len(frame_queue) = QueueSize
    /\ \E w \in Workers : wpc[w] = "put" /\ held[w] # NoFrame

StopRemoveEnds == cpc = "stop_join" /\ cpc' # cpc

\* C30: when a _remove_camera of stop() ends the device has no record, whether
\* the join saw the worker end or timed out and whether the window was destroyed
\* or not; the record it deletes is that of the worker it signalled and tried to
\* join. A record the monitor deletes is that of a worker that has ended.
C30_RemoveAlwaysDeletesRecord ==
    [][/\ StopRemoveEnds =>
            /\ cameras'[Min(stop_todo)] = NoCam
            /\ cameras[Min(stop_todo)] # NoCam =>
                  /\ cameras[Min(stop_todo)].thread = stop_cur
                  /\ thread_stop[stop_cur]
       /\ \A d \in TickRemoves : wpc[cameras[d].thread] = "done"]_vars

\* C30 witness: stop() has removed the record of a worker that is still running,
\* signalled (the join timed out), and the window of the device is still there
\* (destroying it failed)
C30_Witness ==
    /\ cpc = "stop_remove"
    /\ \E w \in Workers :
          /\ IsAlive(w)
          /\ thread_stop[w]
          /\ cameras[wdev[w]] = NoCam
          /\ \E t \in active_windows : t.dev = wdev[w]
\* C34 (as the spec states it): once stop() has begun no record is created, so
\* the device table is empty when stop() has returned. Refuted: a monitor tick
\* that read stop_event before stop() set it runs its add loop after stop() has
\* deleted the records, and stop() joins the monitor for one second only.
C34_TableEmptyAfterStop ==
    cpc = "stopped" => Keys = {}

\* C35: in CameraManager with use_ip_cameras the remove loop (unless a record
\* stop() has deleted ends it by a KeyError) deletes the record of every ended
\* worker it examines and keeps that of a live one, starts no
\* worker itself, and the add loop of a tick, whose discovery is the whole
\* list, starts a fresh worker (retry_count 0, not signalled) for every device
\* of the list that has no record: an ended worker is reaped by one tick and
\* replaced by the next, tick after tick.
C35_FixedListReapThenRestart ==
    [][manager_class = "CameraManager" /\ use_ip_cameras =>
          /\ \A d \in AllDevs :
                Examines(d) /\ mpc' # "crashed" /\ cameras[d] # NoCam =>
                    IF IsAlive(cameras[d].thread)
                    THEN cameras'[d] = cameras[d]
                    ELSE cameras'[d] = NoCam
          /\ TickExamines => \A w \in Workers : wpc[w] = "new" => wpc'[w] = "new"
          /\ TickAdds =>
                /\ current_devices = IpDevs
                /\ \A d \in IpDevs :
                      cameras[d] = NoCam =>
                          /\ cameras'[d] # NoCam
                          /\ Started(cameras'[d].thread, d)
                          /\ retry_count'[cameras'[d].thread] = 0
                          /\ ~thread_stop'[cameras'[d].thread]]_vars

\* C35 witness: CameraManager with a fixed list, stop() not called; a tick has
\* reaped the record of a device whose worker gave up and the next tick, about
\* to run its add loop, has the device in its discovery
C35_Witness ==
    /\ manager_class = "CameraManager" /\ use_ip_cameras
    /\ ~stop_event
    /\ cpc \in {"drain", "cached", "gui", "error_sleep"}
    /\ mpc = "lock"
    /\ nfaults >= MaxRetries
    /\ \E d \in current_devices : cameras[d] = NoCam

\* C36: a worker leaves run() only at the test of its loop, with its stop signal
\* set or retry_count = max_retries; an open that succeeds leaves retry_count 0,
\* a failed read (ret false) leaves it as it is, and a streaming session leaves
\* it at 1 at most: sessions that end in read failures never add up to the limit.
C36_ExitOnlyBySignalOrRetryLimit ==
    [][\A w \in Workers :
          /\ Exits(w) =>
                wpc[w] = "loop" /\ (thread_stop[w] \/ retry_count[w] = MaxRetries)
          /\ wpc[w] = "open" /\ wpc'[w] = "stream" => retry_count'[w] = 0
          /\ HandlesFailedRead(w) => retry_count'[w] = retry_count[w]
          /\ wpc[w] \in StreamPcs /\ SameLifetime(w) => retry_count'[w] <= 1]_vars

\* C36 witness: the probed class; every fault of the scenario has happened,
\* time has passed, and the worker, not signalled and with retry_count 0, is
\* about to open its device again
C36_Witness ==
    /\ ~use_ip_cameras
    /\ nfaults = MaxFaults
    /\ now >= TickStep
    /\ ~stop_event
    /\ \E w \in Workers :
          /\ wpc[w] = "open"
          /\ retry_count[w] = 0
          /\ ~thread_stop[w]

\* C39 (as the spec states it): the device table never has more than
\* max_cameras records. Refuted for the fixed list: its discovery is the whole
\* list, whose length max_cameras does not bound.
C39_RecordsWithinMaxCameras ==
    Cardinality(Keys) <= MaxCameras
\* The main loop runs: start() has been called and stop() has not
Running == cpc \in {"drain", "cached", "gui", "error_sleep"}

\* C38: while the main loop runs, a worker waiting in frame_queue.put gets its
\* frame into the queue, the lock the monitor holds is released, and the main
\* thread sleeping after a failed iteration goes on to the next one (or stop()
\* is called meanwhile).
C38_NoDeadlockWhileRunning ==
    /\ \A w \in Workers :
          (wpc[w] = "put" /\ Running) ~> (wpc[w] # "put" \/ ~Running)
    /\ (lock = "monitor") ~> (lock = "free")
    /\ (cpc = "error_sleep") ~> (cpc = "drain" \/ ~Running)

\* C38 witness: a worker waits on the full queue while the main thread sleeps
\* after an iteration that failed in the callback
C38_Witness ==
    /\ cpc = "error_sleep"
    /\ main_error = "callback"
    /\ ~stop_event
    /\ Len(frame_queue) = QueueSize
    /\ \E w \in Workers : wpc[w] = "put"
\* _update_gui_windows runs in this step (the windows are shown), and the
\* iteration ends by the test of the main loop, not by KeyboardInterrupt
Reconciles == show_gui /\ cpc = "gui" /\ cpc' = MainLoop(stop_event')
\* The windows of device d in the window set S
WindowsOf(d, S) == {t \in S : t.dev = d}

C37_EveryHandleReleased ==
    /\ ~unreleased
    /\ \A w \in Workers : ~IsAlive(w) => ~cap[w]
\* C40 (as the spec states it): a stop() called after a first stop() has
\* returned changes neither the device table, nor the windows, nor the stop
\* signal, nor any worker's stop signal. Refuted: a monitor tick that outlived
\* the first stop() (C34) has put a record back and started a worker; the
\* second stop() signals that worker and deletes the record.
C40_SecondStopChangesNothing ==
    [][stop_calls >= 2 /\ MainSteps =>
          /\ cameras' = cameras
          /\ active_windows' = active_windows
          /\ stop_event' = stop_event
          /\ thread_stop' = thread_stop]_vars
\* The candidate index i is a camera that can be reached
Reachable(i) == candidates[i] \in {"camera", "opened"}

Processing == cpc \in {"seq_configure", "seq_show"}

\* C33: in sequential mode the list taken at the start stays as it is; the
\* camera opened is the one at the index; the index moves only when
\* _process_camera has returned, by one modulo the length of the list, and it
\* moves then whether the camera was opened, configured and shown or not; one
\* handle at most is open, that of self.cap, only while _process_camera runs,
\* and it is closed when the index moves and when the loop is over.
C33_SequentialCyclicOrder ==
    /\ [](/\ handles = (IF seq_cap = NoCap THEN 0 ELSE 1)
          /\ seq_cap # NoCap <=> Processing
          /\ seq_cap # NoCap => seq_cap = cameras_list[current_cam_idx + 1]
          /\ cameras_list # <<>> => current_cam_idx \in 0..(Len(cameras_list) - 1))
    /\ [][/\ cpc # "init" => cameras_list' = cameras_list
          /\ current_cam_idx' # current_cam_idx => cpc \in {"seq_advance", "seq_failed"}
          /\ cpc \in {"seq_advance", "seq_failed"} /\ cpc' # cpc =>
                /\ current_cam_idx' = (current_cam_idx + 1) % Len(cameras_list)
                /\ handles = 0
                /\ cpc' = "seq_loop"
          /\ handles' > handles => cpc = "seq_loop" /\ handles = 0]_vars

\* C33 witness: three cameras; after a full round and more the first camera is
\* open again
C33_Witness ==
    /\ Len(cameras_list) = NumCandidates
    /\ turns = MaxTurns
    /\ current_cam_idx = 0
    /\ seq_cap = cameras_list[1]
    /\ cpc = "seq_show"
====
